---- MODULE Spec2Model ----
(***************************************************************************)
(* A model of hepl (src/hepl/main.py): the input accumulator get_command,  *)
(* the dot-command dispatcher built by make_dot_command_parser, and the    *)
(* REPL driver hyper_repl.                                                 *)
(*                                                                         *)
(* Text is a sequence of atoms.  An atom is one of the characters " ",     *)
(* "\n", ".", ";" or a word: a non-empty run of characters that holds no   *)
(* whitespace, no '.' and no ';'.  lstrip, rstrip, startswith, endswith,   *)
(* split and join are computed on these sequences as Python computes them  *)
(* on characters.                                                          *)
(***************************************************************************)
EXTENDS Integers, Sequences, FiniteSets, TLC

\* ---------------------------------------------------------------- bounds
\* most leading / trailing blanks put around a line body
MaxPad == 1
\* most lines input() returns to one get_command call
MaxReads == 2
\* most rows an engine result yields
MaxRows == 2

\* ------------------------------------------------------------ text helpers
IsSpace(c) == c \in {" ", "\n"}

RECURSIVE lstrip(_)
lstrip(s) == IF s # <<>> /\ IsSpace(Head(s)) THEN lstrip(Tail(s)) ELSE s

RECURSIVE rstrip(_)
rstrip(s) ==
    IF s # <<>> /\ IsSpace(s[Len(s)]) THEN rstrip(SubSeq(s, 1, Len(s) - 1)) ELSE s

startswith(s, c) == s # <<>> /\ Head(s) = c

endswith(s, c) == s # <<>> /\ s[Len(s)] = c

\* "\n".join(buffer)
RECURSIVE join(_)
join(buffer) ==
    IF buffer = <<>> THEN <<>>
    ELSE IF Len(buffer) = 1 THEN buffer[1]
    ELSE buffer[1] \o <<"\n">> \o join(Tail(buffer))

\* str.split(): the maximal runs of non-whitespace, in order
RECURSIVE splitFrom(_, _)
splitFrom(s, cur) ==
    IF s = <<>> THEN (IF cur = <<>> THEN <<>> ELSE <<cur>>)
    ELSE IF IsSpace(Head(s))
         THEN (IF cur = <<>> THEN <<>> ELSE <<cur>>) \o splitFrom(Tail(s), <<>>)
         ELSE splitFrom(Tail(s), Append(cur, Head(s)))

split(s) == splitFrom(s, <<>>)

\* ------------------------------------------------------------- input lines
Pad(n) == [i \in 1..n |-> " "]

Bodies ==
    { <<>>,
      <<".">>,
      <<".", "tables">>,
      <<".", "tables", ";">>,
      <<".", "tables", " ", "public">>,
      <<".", "tables", " ", "t1", " ", "public">>,
      <<".", "schemas">>,
      <<".", "schema">>,
      <<".", "schema", " ", "t1">>,
      <<".", "exit">>,
      <<".", "help">>,
      <<".", "help", " ", "-h">>,
      <<".", "foo">>,
      <<"select">>,
      <<"t1", ";">> }

\* the lines input() may return: a body with leading or with trailing blanks
Lines ==
    { Pad(n) \o b : n \in 0..MaxPad, b \in Bodies }
        \cup { b \o Pad(m) : m \in 0..MaxPad, b \in Bodies }

\* --------------------------------------------------- the command registry
\* dot_command.commands, in registration order (lines 50-68)
registered_commands == <<"schemas", "tables", "schema", "exit">>

\* Parameters with another default schema
Parameters_OtherDefault(name) ==
    CASE name = "tables" ->
           << [name |-> "schema", hasDefault |-> TRUE, default |-> <<"t1">>] >>
      [] name = "schema" ->
           << [name |-> "table", hasDefault |-> FALSE, default |-> <<>>] >>
      [] OTHER -> <<>>

\* the parameters of each handler after the connection (inspect.signature)
Parameters(name) ==
    CASE name = "tables" ->
           << [name |-> "schema", hasDefault |-> TRUE, default |-> <<"public">>] >>
      [] name = "schema" ->
           << [name |-> "table", hasDefault |-> FALSE, default |-> <<>>] >>
      [] OTHER -> <<>>

\* the order of str comparison on the words of the model
LexRank(name) ==
    CASE name = "-h" -> 1
      [] name = "exit" -> 2
      [] name = "foo" -> 3
      [] name = "help" -> 4
      [] name = "public" -> 5
      [] name = "schema" -> 6
      [] name = "schemas" -> 7
      [] name = "select" -> 8
      [] name = "t1" -> 9
      [] name = "tables" -> 10

\* Sorted that keeps the registration order
Sorted_Unsorted(s) == s

\* sorted(registered_commands.items()): insertion sort by name
RECURSIVE Insert(_, _)
Insert(x, s) ==
    IF s = <<>> THEN <<x>>
    ELSE IF LexRank(x) <= LexRank(Head(s)) THEN <<x>> \o s
    ELSE <<Head(s)>> \o Insert(x, Tail(s))

RECURSIVE Sorted(_)
Sorted(s) == IF s = <<>> THEN <<>> ELSE Insert(Head(s), Sorted(Tail(s)))

\* the sub-parsers of the dispatcher, in the order they are added
SubparserNames == Sorted(registered_commands) \o <<"help">>

\* the lru_cache of make_dot_command_parser before the first call (line 90)
NotBuilt == [id |-> 0, subparsers |-> <<>>]

\* the body of make_dot_command_parser: a new parser object, the id-th that
\* the process builds (lines 92-123)
Build(id) == [id |-> id, subparsers |-> SubparserNames]

\* make_dot_command_parser without @lru_cache
make_dot_command_parser_Uncached(cache) == Build(cache.id + 1)

\* make_dot_command_parser() under @lru_cache(maxsize=None) (lines 90-91):
\* the cached parser when there is one, else a first build
make_dot_command_parser(cache) == IF cache = NotBuilt THEN Build(1) ELSE cache

SeqToSet(s) == { s[i] : i \in DOMAIN s }

\* ------------------------------------------------------------- the parser
\* the exception a wrong number of tokens leaves parse_args with: error()
\* raises DotCommandParserError (lines 78-79), exit_on_error=False (lines 92
\* and 98) asks for argparse's own ArgumentError.  honoured says whether the
\* interpreter's argparse honours exit_on_error=False for these errors (3.13
\* and the late 3.12 releases) or calls error() all the same (3.9 to 3.11)
ArityError(honoured) == IF honoured THEN "ArgumentError" ELSE "DotCommandParserError"

\* words that argparse takes for option strings
OptionAtoms == {"-h"}

IsOption(token) == Head(token) \in OptionAtoms

IsPositional(token) == ~IsOption(token)

Failure(exc, msg, printed) ==
    [kind |-> exc, msg |-> msg, printed |-> printed, func |-> "None", args |-> <<>>]

Bound(func, args) ==
    [kind |-> "ok", msg |-> <<>>, printed |-> <<>>, func |-> func, args |-> args]

\* ParseSub that binds every parameter to its default
ParseSub_DefaultsOnly(name, rest, honoured) ==
    LET params == Parameters(name)
        pos == SelectSeq(rest, IsPositional)
        required == SelectSeq(params, LAMBDA p : ~p.hasDefault)
    IN  IF Len(pos) < Len(required)
        THEN Failure(ArityError(honoured), <<"the following arguments are required">>, <<>>)
        ELSE IF Len(pos) > Len(params) \/ Len(pos) # Len(rest)
        THEN Failure(ArityError(honoured), <<"unrecognized arguments">>, <<>>)
        ELSE Bound(name, [i \in DOMAIN params |-> params[i].default])

\* the sub-parser of a registered command: one positional per parameter,
\* nargs="?" with the default when the parameter has one (lines 98-113),
\* and dot_cmd's formed_args (lines 83-85)
ParseSub(name, rest, honoured) ==
    LET params == Parameters(name)
        pos == SelectSeq(rest, IsPositional)
        required == SelectSeq(params, LAMBDA p : ~p.hasDefault)
        namespace == [n \in { params[i].name : i \in DOMAIN params } |->
                        LET i == CHOOSE j \in DOMAIN params : params[j].name = n
                        IN  IF i <= Len(pos) THEN pos[i] ELSE params[i].default]
    IN  IF Len(pos) < Len(required)
        THEN Failure(ArityError(honoured), <<"the following arguments are required">>, <<>>)
        ELSE IF Len(pos) > Len(params) \/ Len(pos) # Len(rest)
        THEN Failure(ArityError(honoured), <<"unrecognized arguments">>, <<>>)
        ELSE Bound(name, [i \in DOMAIN params |-> namespace[params[i].name]])

\* the help sub-parser: add_parser("help") keeps add_help, so it owns -h,
\* whose action prints the usage and exits the process (lines 120-121)
ParseHelp(rest, honoured) ==
    IF \E i \in DOMAIN rest : IsOption(rest[i])
    THEN Failure("SystemExit", <<>>, << <<"usage:", "help", "[-h]">> >>)
    ELSE IF rest # <<>>
    THEN Failure(ArityError(honoured), <<"unrecognized arguments">>, <<>>)
    ELSE Bound("help", <<>>)

\* parser.parse_args(tokens) of the dispatcher built with exit_on_error=False
\* (lines 92-94 and 130): an invalid choice leaves as argparse's own
\* ArgumentError, no tokens leave func at its default None
RECURSIVE parse_args(_, _)
parse_args(tokens, honoured) ==
    IF tokens = <<>> THEN Bound("None", <<>>)
    ELSE LET t == Head(tokens)
             rest == Tail(tokens)
         IN  IF IsOption(t)
             THEN LET r == parse_args(rest, honoured)
                  IN  IF r.kind = "ok"
                      THEN Failure(ArityError(honoured), <<"unrecognized arguments">>, <<>>)
                      ELSE r
             ELSE IF t = <<"help">> THEN ParseHelp(rest, honoured)
             ELSE IF \E i \in DOMAIN registered_commands : t = <<registered_commands[i]>>
             THEN ParseSub(t[1], rest, honoured)
             ELSE Failure("ArgumentError", <<"invalid choice">>, <<>>)

\* ------------------------------------------------------------ the catalog
Tables == {"t1"}
Schemas == <<"public">>

Val(kind, v) == [py |-> kind, v |-> v]

\* str(x)
Str(x) == IF x.py = "str" THEN x.v ELSE x.v[1]

Text(token) == IF Len(token) = 1 THEN token[1] ELSE "?"

Call(op, arg) == [op |-> op, arg |-> arg]

Returned(rows, cs) == [kind |-> "ok", msg |-> <<>>, rows |-> rows, calls |-> cs]

Threw(exc, msg, cs) == [kind |-> exc, msg |-> msg, rows |-> <<>>, calls |-> cs]

\* dot_schemas (lines 50-52)
dot_schemas(cat) ==
    Returned([i \in DOMAIN Schemas |-> <<Val("str", Schemas[i])>>],
             <<Call("dot_schemas", <<>>), Call("get_schema_names", <<>>)>>)

\* dot_tables (lines 55-57); the catalog refuses a schema it does not hold
dot_tables(cat, schema) ==
    LET cs == <<Call("dot_tables", <<schema>>), Call("get_table_names", <<schema>>)>>
    IN  IF Text(schema) \in SeqToSet(Schemas)
        THEN Returned(IF "t1" \in cat THEN << <<Val("str", "t1")>> >> ELSE <<>>, cs)
        ELSE Threw("HyperException", <<"schema does not exist">>, cs)

\* dot_schema (lines 60-63); the catalog refuses a table it does not hold
dot_schema(cat, table) ==
    LET cs == <<Call("dot_schema", <<table>>), Call("get_table_definition", <<table>>)>>
    IN  IF Text(table) \in cat
        THEN Returned(<< <<Val("str", "id"), Val("type", <<"int">>)>>,
                         <<Val("str", "total"), Val("type", <<"double">>)>> >>, cs)
        ELSE Threw("HyperException", <<"table does not exist">>, cs)

\* dot_exit (lines 66-68)
dot_exit == Threw("EOFError", <<>>, <<Call("dot_exit", <<>>)>>)

\* args.func(args, conn) (line 131)
Invoke(p, cat) ==
    CASE p.func = "schemas" -> dot_schemas(cat)
      [] p.func = "tables" -> dot_tables(cat, p.args[1])
      [] p.func = "schema" -> dot_schema(cat, p.args[1])
      [] p.func = "exit" -> dot_exit
      [] p.func = "help" -> Returned(<<>>, <<>>)
      [] OTHER -> Threw("TypeError", <<"NoneType object is not callable">>, <<>>)

\* handle_dot_command (lines 126-131): what it prints, calls, returns or raises
handle_dot_command(cat, cmd, honoured, parser) ==
    LET tokens == split(Tail(lstrip(cmd)))
        p == parse_args(tokens, honoured)
        h == Invoke(p, cat)
        parsed == <<Call("parse_args", tokens)>>
    IN  IF p.kind # "ok"
        THEN [kind |-> p.kind, msg |-> p.msg, rows |-> <<>>, calls |-> parsed,
              printed |-> p.printed]
        ELSE [kind |-> h.kind, msg |-> h.msg, rows |-> h.rows, calls |-> parsed \o h.calls,
              printed |-> IF p.func = "help" THEN << <<"usage:">> \o parser.subparsers >> ELSE <<>>]

\* RowText with another column separator
RECURSIVE RowText_Comma(_)
RowText_Comma(row) ==
    IF row = <<>> THEN <<>>
    ELSE IF Len(row) = 1 THEN <<Str(row[1])>>
    ELSE <<Str(row[1]), ",">> \o RowText_Comma(Tail(row))

\* col_sep.join(str(x) for x in row) (line 145)
RECURSIVE RowText(_)
RowText(row) ==
    IF row = <<>> THEN <<>>
    ELSE IF Len(row) = 1 THEN <<Str(row[1])>>
    ELSE <<Str(row[1]), "|">> \o RowText(Tail(row))

\* -------------------------------------------------------------- the state
VARIABLES
    pc,        \* Prompting (inside get_command), Dispatching, Printing,
               \* Terminated (the loop was left by break), Crashed (an
               \* exception left hyper_repl)
    linenum,   \* get_command: the number of lines read so far
    buffer,    \* get_command: the lines kept so far
    command,   \* the unit get_command returned in this iteration
    nreads,    \* the input() calls made by the get_command of this iteration
    event,     \* what the last step did
    raised,    \* the exception raised in the loop body in this iteration
    out,       \* the lines printed in this iteration
    calls,     \* parser, handler, catalog and engine calls of this iteration
    results,   \* the rows not yet iterated
    rkind,     \* which container get_results returned: none, hepl or engine
    live,      \* engine result handles acquired and not yet closed
    closes,    \* close() calls made on the container of this iteration
    catalog,   \* the tables the catalog held at the dispatch of this iteration
    parser_cache, \* what make_dot_command_parser's lru_cache holds
    database,  \* args.database: None, a path given by the user, or the
               \* path inside the scratch directory
    temp_dir,  \* the scratch directory: none, created or removed
    header     \* the lines hepl_header printed

vars == <<pc, linenum, buffer, command, nreads, event, raised, out, calls,
          results, rkind, live, closes, catalog, parser_cache, database,
          temp_dir, header>>

Init ==
    /\ pc = "Start"
    /\ parser_cache = NotBuilt
    /\ database \in {"None", "path"}
    /\ temp_dir = "none"
    /\ header = <<>>
    /\ linenum = 0
    /\ buffer = <<>>
    /\ command = <<>>
    /\ nreads = 0
    /\ event = "init"
    /\ raised = "none"
    /\ out = <<>>
    /\ calls = <<>>
    /\ results = <<>>
    /\ rkind = "none"
    /\ live = 0
    /\ closes = 0
    /\ catalog = {}

\* ------------------------------------------------------------ get_command
\* the buffer after input() returned line (lines 162-164)
Appended(line) == IF line = <<>> THEN buffer ELSE Append(buffer, line)

\* Breaks with the dot-command clause on every line
Breaks_DotOnAnyLine(line) ==
    \/ line = <<>>
    \/ startswith(lstrip(line), ".")
    \/ endswith(rstrip(line), ";")

\* Breaks without the dot-command clause
Breaks_NoDotClause(line) ==
    \/ line = <<>>
    \/ endswith(rstrip(line), ";")

\* the loop of get_command ends with this line (lines 162-171)
Breaks(line) ==
    \/ line = <<>>
    \/ linenum = 0 /\ startswith(lstrip(line), ".")
    \/ endswith(rstrip(line), ";")

\* Finally of a main that calls rmtree after hyper_repl returns, without try
Finally_NoTry(dir, byException) ==
    IF dir = "created" /\ ~byException THEN "removed" ELSE dir

\* the finally clause of main (lines 239-241), reached when the try block is
\* left by a return or by an exception
Finally(dir, byException) == IF dir = "created" THEN "removed" ELSE dir

\* Except without the break of the first clause
Except_NoBreak(exc, msg, o) ==
    /\ raised' = exc
    /\ IF exc \in {"KeyboardInterrupt", "EOFError"}
       THEN /\ out' = Append(o, <<>>) /\ pc' = "Prompting" /\ event' = "error"
            /\ UNCHANGED temp_dir
       ELSE IF exc \in {"DotCommandParserError", "HeplException", "HyperException"}
       THEN /\ out' = Append(o, msg) /\ pc' = "Prompting" /\ event' = "error"
            /\ UNCHANGED temp_dir
       ELSE /\ out' = o /\ pc' = "Crashed" /\ event' = "crash"
            /\ temp_dir' = Finally(temp_dir, TRUE)

\* Except without the HyperException clause
Except_NoHyperClause(exc, msg, o) ==
    /\ raised' = exc
    /\ IF exc \in {"KeyboardInterrupt", "EOFError"}
       THEN /\ out' = Append(o, <<>>) /\ pc' = "Terminated" /\ event' = "terminate"
            /\ temp_dir' = Finally(temp_dir, FALSE)
       ELSE IF exc \in {"DotCommandParserError", "HeplException"}
       THEN /\ out' = Append(o, msg) /\ pc' = "Prompting" /\ event' = "error"
            /\ UNCHANGED temp_dir
       ELSE /\ out' = o /\ pc' = "Crashed" /\ event' = "crash"
            /\ temp_dir' = Finally(temp_dir, TRUE)

\* IsNoop without the test
IsNoop_Never(cmd) == FALSE

\* `if not command: continue` (lines 179-180)
IsNoop(cmd) == cmd = <<>>

\* the except clauses of hyper_repl (lines 185-191), o being the output so
\* far; when the loop is left, by break or by an exception that no clause
\* catches, main's with blocks and finally clause run (lines 232-241)
Except(exc, msg, o) ==
    /\ raised' = exc
    /\ IF exc \in {"KeyboardInterrupt", "EOFError"}
       THEN /\ out' = Append(o, <<>>) /\ pc' = "Terminated" /\ event' = "terminate"
            /\ temp_dir' = Finally(temp_dir, FALSE)
       ELSE IF exc \in {"DotCommandParserError", "HeplException", "HyperException"}
       THEN /\ out' = Append(o, msg) /\ pc' = "Prompting" /\ event' = "error"
            /\ UNCHANGED temp_dir
       ELSE /\ out' = o /\ pc' = "Crashed" /\ event' = "crash"
            /\ temp_dir' = Finally(temp_dir, TRUE)

\* the driver is inside get_command, about to call input()
Reading == pc = "Prompting" /\ event \in {"init", "loop", "line"}

\* `while True` starts the next iteration (line 176): what is kept about the
\* last iteration is forgotten
Loop ==
    /\ UNCHANGED <<parser_cache, database, temp_dir, header>>
    /\ pc = "Prompting"
    /\ ~Reading
    /\ command' = <<>>
    /\ nreads' = 0
    /\ raised' = "none"
    /\ out' = <<>>
    /\ calls' = <<>>
    /\ results' = <<>>
    /\ rkind' = "none"
    /\ closes' = 0
    /\ catalog' = {}
    /\ event' = "loop"
    /\ UNCHANGED <<pc, linenum, buffer, live>>

\* input() returns a line (lines 159-172), then `if not command: continue`
\* (lines 178-180)
ReadLine(line) ==
    /\ UNCHANGED <<parser_cache, database, temp_dir, header>>
    /\ Reading
    /\ linenum < MaxReads
    /\ UNCHANGED <<raised, out, calls, results, rkind, closes>>
    /\ IF Breaks(line)
       THEN /\ command' = join(Appended(line))
            /\ nreads' = linenum + 1
            /\ buffer' = <<>>
            /\ linenum' = 0
            /\ IF IsNoop(command')
               THEN pc' = "Prompting" /\ event' = "empty"
               ELSE pc' = "Dispatching" /\ event' = "unit"
       ELSE /\ buffer' = Appended(line)
            /\ linenum' = linenum + 1
            /\ command' = <<>>
            /\ nreads' = linenum + 1
            /\ pc' = "Prompting"
            /\ event' = "line"
    /\ UNCHANGED <<live, catalog>>

\* input() raises: ^C or end of input (line 161)
ReadInterrupt(exc) ==
    /\ UNCHANGED <<parser_cache, database, header>>
    /\ Reading
    /\ exc \in {"KeyboardInterrupt", "EOFError"}
    /\ nreads' = linenum + 1
    /\ buffer' = <<>>
    /\ linenum' = 0
    /\ Except(exc, <<>>, out)
    /\ UNCHANGED <<command, calls, results, rkind, closes, live, catalog>>

\* ------------------------------------------------------------- get_results
\* ExitScope of a close() that follows show_results outside any with block
ExitScope_NoWith(byException) == IF byException THEN 0 ELSE 1

\* the number of close() calls the with statement makes when its body is
\* left, normally or by an exception (lines 32-33 and 182-183)
ExitScope(byException) == 1

\* get_results takes the dot-command branch (lines 149-150)
IsDotCommand(cmd) == startswith(cmd, ".")

\* get_results on a dot command, then __enter__ (lines 149-150, 182), the
\* database holding the tables cat
DispatchDot(cat, honoured) ==
    /\ UNCHANGED <<database, header>>
    /\ pc = "Dispatching"
    /\ IsDotCommand(command)
    /\ catalog' = cat
    /\ parser_cache' = make_dot_command_parser(parser_cache)
    /\ LET r == handle_dot_command(cat, command, honoured, parser_cache')
       IN  /\ calls' = calls \o r.calls
           /\ IF r.kind = "ok"
              THEN /\ results' = r.rows
                   /\ UNCHANGED temp_dir
                   /\ rkind' = "hepl"
                   /\ out' = out \o r.printed
                   /\ pc' = "Printing"
                   /\ event' = "dispatched"
                   /\ UNCHANGED raised
              ELSE /\ Except(r.kind, r.msg, out \o r.printed)
                   /\ UNCHANGED <<results, rkind>>
    /\ UNCHANGED <<linenum, buffer, command, nreads, live, closes>>

EngineRows(k) == [i \in 1..k |-> <<Val("str", "v")>>]

\* get_results on a statement, then __enter__ (lines 151, 182): the engine
\* answers with a result handle of k rows
DispatchQuery(k) ==
    /\ UNCHANGED <<parser_cache, database, temp_dir, header>>
    /\ pc = "Dispatching"
    /\ ~IsDotCommand(command)
    /\ calls' = Append(calls, Call("execute_query", command))
    /\ results' = EngineRows(k)
    /\ rkind' = "engine"
    /\ live' = live + 1
    /\ pc' = "Printing"
    /\ event' = "dispatched"
    /\ UNCHANGED <<linenum, buffer, command, nreads, raised, out, closes, catalog>>

\* execute_query raises a HyperException (line 151)
DispatchQueryError ==
    /\ UNCHANGED <<parser_cache, database, header>>
    /\ pc = "Dispatching"
    /\ ~IsDotCommand(command)
    /\ calls' = Append(calls, Call("execute_query", command))
    /\ Except("HyperException", <<"query failed">>, out)
    /\ UNCHANGED <<linenum, buffer, command, nreads, results, rkind, live, closes, catalog>>

\* ^C while get_results runs, before a container is returned
DispatchInterrupt ==
    /\ UNCHANGED <<parser_cache, database, header>>
    /\ pc = "Dispatching"
    /\ Except("KeyboardInterrupt", <<>>, out)
    /\ UNCHANGED <<linenum, buffer, command, nreads, calls, results, rkind, live,
                   closes, catalog>>

\* ------------------------------------------------------------ show_results
\* leaving the with block (lines 32-36, 182-183)
Close(byException) ==
    /\ closes' = closes + ExitScope(byException)
    /\ live' = IF rkind = "engine" THEN live - ExitScope(byException) ELSE live

\* one turn of the loop of show_results (lines 144-145)
ShowRow ==
    /\ UNCHANGED <<parser_cache, database, temp_dir, header>>
    /\ pc = "Printing"
    /\ results # <<>>
    /\ out' = Append(out, RowText(Head(results)))
    /\ results' = Tail(results)
    /\ event' = "row"
    /\ UNCHANGED <<pc, linenum, buffer, command, nreads, raised, calls, rkind, live,
                   closes, catalog>>

\* the rows are exhausted: the with block is left normally (lines 144, 183)
PrintDone ==
    /\ UNCHANGED <<parser_cache, database, temp_dir, header>>
    /\ pc = "Printing"
    /\ results = <<>>
    /\ Close(FALSE)
    /\ pc' = "Prompting"
    /\ event' = "done"
    /\ UNCHANGED <<linenum, buffer, command, nreads, raised, out, calls, results,
                   rkind, catalog>>

\* the engine raises while its rows are iterated (line 144)
PrintError ==
    /\ UNCHANGED <<parser_cache, database, header>>
    /\ pc = "Printing"
    /\ rkind = "engine"
    /\ Close(TRUE)
    /\ Except("HyperException", <<"query failed">>, out)
    /\ UNCHANGED <<linenum, buffer, command, nreads, calls, results, rkind, catalog>>

\* ^C while the rows are printed (lines 144-145)
PrintInterrupt ==
    /\ UNCHANGED <<parser_cache, database, header>>
    /\ pc = "Printing"
    /\ Close(TRUE)
    /\ Except("KeyboardInterrupt", <<>>, out)
    /\ UNCHANGED <<linenum, buffer, command, nreads, calls, results, rkind, catalog>>

\* ------------------------------------------------------------------- main
repl_vars == <<linenum, buffer, command, nreads, raised, out, calls, results,
               rkind, live, closes, catalog, parser_cache>>

\* parse_arguments, init_readline and the scratch directory (lines 218-230)
Setup ==
    /\ pc = "Start"
    /\ IF database = "None"
       THEN temp_dir' = "created" /\ database' = "scratch"
       ELSE UNCHANGED <<temp_dir, database>>
    /\ pc' = "Launching"
    /\ event' = "setup"
    /\ UNCHANGED <<repl_vars, header>>

\* the engine process starts (lines 233-235)
StartHyper ==
    /\ pc = "Launching"
    /\ pc' = "Connecting"
    /\ event' = "launched"
    /\ UNCHANGED <<repl_vars, database, temp_dir, header>>

\* the connection opens, the header is printed and hyper_repl is entered
\* (lines 236-238)
Connect ==
    /\ pc = "Connecting"
    /\ header' = << <<"Hepl Version">>, <<"Enter .help for usage hints.">>,
                    <<"Connected to database", database>> >>
    /\ pc' = "Prompting"
    /\ event' = "init"
    /\ UNCHANGED <<repl_vars, database, temp_dir>>

\* the engine process or the connection cannot be established: the
\* HyperException leaves main through the finally clause (lines 233-241)
StartupFault ==
    /\ pc \in {"Launching", "Connecting"}
    /\ temp_dir' = Finally(temp_dir, TRUE)
    /\ pc' = "Faulted"
    /\ event' = "fault"
    /\ UNCHANGED <<repl_vars, database, header>>

Next ==
    \/ Setup
    \/ StartHyper
    \/ Connect
    \/ StartupFault
    \/ Loop
    \/ \E line \in Lines : ReadLine(line)
    \/ \E exc \in {"KeyboardInterrupt", "EOFError"} : ReadInterrupt(exc)
    \/ \E cat \in SUBSET Tables, honoured \in BOOLEAN : DispatchDot(cat, honoured)
    \/ \E k \in 0..MaxRows : DispatchQuery(k)
    \/ DispatchQueryError
    \/ DispatchInterrupt
    \/ ShowRow
    \/ PrintDone
    \/ PrintError
    \/ PrintInterrupt

Spec == Init /\ [][Next]_vars
\* ------------------------------------------------------------- properties
Signals == {"KeyboardInterrupt", "EOFError"}

\* the text of cmd before its first newline
RECURSIVE FirstLine(_)
FirstLine(cmd) ==
    IF cmd = <<>> \/ Head(cmd) = "\n" THEN <<>> ELSE <<Head(cmd)>> \o FirstLine(Tail(cmd))

\* the text of cmd after its last newline
RECURSIVE LastLine(_)
LastLine(cmd) ==
    IF cmd = <<>> \/ cmd[Len(cmd)] = "\n" THEN <<>>
    ELSE Append(LastLine(SubSeq(cmd, 1, Len(cmd) - 1)), cmd[Len(cmd)])

\* the first line of the unit is an administrative line
IsAdminUnit(cmd) == startswith(lstrip(FirstLine(cmd)), ".")

OpsOf(cs) == { cs[i].op : i \in DOMAIN cs }

\* C1: a non-empty first line that begins with '.' after its leading
\* whitespace makes get_command return after that one read, and the unit is
\* exactly that line, with or without a ';' in it.
C1_AdminLineIsOneRead ==
    [][(Reading /\ linenum = 0)
          => \A line \in Lines :
                (line # <<>> /\ startswith(lstrip(line), ".") /\ ReadLine(line))
                    => (pc' = "Dispatching" /\ nreads' = 1 /\ command' = line)]_vars

C1_Witness ==
    pc = "Dispatching" /\ nreads = 1 /\ command = <<" ", ".", "tables">>

\* C2: a non-empty unit whose first line is not administrative is returned
\* only after a line that ends with ';' was read: its last line ends
\* with ';' after trimming trailing whitespace.
C2_StatementEndsWithTerminator ==
    (pc = "Dispatching" /\ ~IsAdminUnit(command))
        => endswith(rstrip(LastLine(command)), ";")

\* C3: a unit returned as an administrative line goes through the parser of
\* the command registry and never to execute_query; every other non-empty
\* unit goes to execute_query unchanged.
C3_AdminNeverToEngine ==
    (calls # <<>>)
        => IF IsAdminUnit(command)
           THEN calls[1].op = "parse_args" /\ "execute_query" \notin OpsOf(calls)
           ELSE calls = <<Call("execute_query", command)>>

\* the first token of the administrative line is no sub-command name
UnknownName(cmd) ==
    LET tokens == split(Tail(lstrip(cmd)))
    IN  /\ IsDotCommand(cmd)
        /\ tokens # <<>>
        /\ ~IsOption(tokens[1])
        /\ \A i \in DOMAIN SubparserNames : tokens[1] # <<SubparserNames[i]>>

\* C4: dispatching an administrative line whose command name is not
\* registered fails with a parse error that is caught: one message is
\* printed, no handler and no engine call is made, and the driver is back at
\* Prompting with nothing else changed.
C4_UnknownNameRecovers ==
    (UnknownName(command) /\ pc # "Dispatching" /\ raised \notin Signals)
        => /\ pc = "Prompting"
           /\ raised = "DotCommandParserError"
           /\ Len(out) = 1
           /\ OpsOf(calls) = {"parse_args"}
           /\ live = 0

\* C5: nothing but an interrupt or end-of-input ends the loop: no other
\* exception and no process exit leaves the loop body.
C5_NothingEscapes == pc # "Crashed"

\* C6: an interrupt or end-of-input in any state, and the exit command, end
\* the loop: one blank line is printed, the driver is Terminated, and no step
\* is taken afterwards.
C6_SignalTerminates ==
    [][/\ pc # "Terminated"
       /\ (raised' \in Signals /\ raised \notin Signals)
             => (pc' = "Terminated" /\ out' = Append(out, <<>>))
       /\ ("dot_exit" \in OpsOf(calls')) => raised' = "EOFError"
       /\ (pc' = "Terminated") => raised' \in Signals]_vars

C6_Witness ==
    /\ pc = "Terminated"
    /\ raised = "KeyboardInterrupt"
    /\ rkind = "engine"
    /\ Len(out) = 2
    /\ results # <<>>

\* C7: the container get_results returned for a unit is closed exactly once
\* when printing is left, whether the rows ran out or iteration raised.
C7_ReleasedExactlyOnce ==
    /\ (rkind = "none") => closes = 0
    /\ (rkind # "none" /\ pc = "Printing") => closes = 0
    /\ (rkind # "none" /\ pc # "Printing") => closes = 1

C7_Witness ==
    /\ pc = "Prompting"
    /\ rkind = "engine"
    /\ raised = "HyperException"
    /\ closes = 1
    /\ Len(out) = 2
    /\ results # <<>>

\* C8: at most one engine result handle is live, and none is live while the
\* driver is Prompting or Terminated.
C8_AtMostOneLiveHandle ==
    /\ live \in {0, 1}
    /\ (live = 1) => (pc = "Printing" /\ rkind = "engine")
    /\ (pc \in {"Prompting", "Terminated"}) => live = 0

C8_Witness ==
    /\ pc = "Terminated"
    /\ rkind = "engine"
    /\ raised = "KeyboardInterrupt"
    /\ live = 0
    /\ closes = 1
    /\ out = << <<>> >>

\* C9: an empty first line makes get_command return the empty unit after one
\* read, and the driver does nothing with it: no dispatch, no engine call, no
\* output, no error, and it is back at Prompting.
C9_EmptyUnitIsNoop ==
    [][(linenum = 0 /\ ReadLine(<<>>))
          => /\ pc' = "Prompting"
             /\ event' = "empty"
             /\ nreads' = 1
             /\ command' = <<>>
             /\ calls' = <<>>
             /\ out' = <<>>
             /\ raised' = "none"
             /\ rkind' = "none"
             /\ live' = live]_vars

C9_Witness ==
    pc = "Prompting" /\ event = "empty" /\ nreads = 1 /\ calls = <<>> /\ out = <<>>

\* C10: a HyperException raised by execute_query, by the iteration of its
\* rows or by the catalog under an administrative command is caught: its
\* message is printed last and the driver is back at Prompting.
C10_EngineErrorRecovers ==
    (raised = "HyperException")
        => /\ pc = "Prompting"
           /\ event = "error"
           /\ out # <<>>
           /\ out[Len(out)] \in {<<"query failed">>, <<"table does not exist">>,
                                 <<"schema does not exist">>}

C10_Witness ==
    /\ raised = "HyperException"
    /\ pc = "Prompting"
    /\ "get_table_definition" \in OpsOf(calls)
    /\ out = << <<"table does not exist">> >>
\* the tokens of an administrative unit
TokensOf(cmd) == split(Tail(lstrip(cmd)))

\* a registered command given too few or too many tokens
WrongArity(cmd) ==
    /\ IsDotCommand(cmd)
    /\ TokensOf(cmd) # <<>>
    /\ \E i \in DOMAIN registered_commands :
          LET name == registered_commands[i]
              rest == Tail(TokensOf(cmd))
              params == Parameters(name)
              required == { j \in DOMAIN params : ~params[j].hasDefault }
          IN  /\ Head(TokensOf(cmd)) = <<name>>
              /\ \A j \in DOMAIN rest : IsPositional(rest[j])
              /\ Len(rest) < Cardinality(required) \/ Len(rest) > Len(params)

\* C11: a registered command given too few tokens for its required
\* parameters, or more tokens than it declares, fails with a parse error
\* before its handler runs; the error is caught, its message printed, and the
\* driver is back at Prompting.
C11_WrongArityRecovers ==
    (WrongArity(command) /\ calls # <<>>)
        => /\ pc = "Prompting"
           /\ raised = "DotCommandParserError"
           /\ Len(out) = 1
           /\ OpsOf(calls) = {"parse_args"}

\* the unit is the tables command without an argument
TablesNoArg(cmd) == IsDotCommand(cmd) /\ TokensOf(cmd) = << <<"tables">> >>

\* C12: the tables command without an argument calls its handler with the
\* schema "public" and gives what the command with the explicit argument
\* public gives, whatever tables the catalog holds.
C12_TablesDefaultsToPublic ==
    (TablesNoArg(command) /\ calls # <<>>)
        => LET r == handle_dot_command(catalog, <<".", "tables", " ", "public">>,
                                       FALSE, parser_cache)
           IN  /\ Len(calls) = 3
               /\ calls[2] = Call("dot_tables", << <<"public">> >>)
               /\ calls[3] = Call("get_table_names", << <<"public">> >>)
               /\ rkind = "hepl"
               /\ r.kind = "ok"
               /\ (event = "dispatched") => results = r.rows

C12_Witness ==
    /\ TablesNoArg(command)
    /\ event = "dispatched"
    /\ catalog = {"t1"}
    /\ results = << <<Val("str", "t1")>> >>

\* the usage that the help command printed in this iteration
HelpListed ==
    /\ calls = <<Call("parse_args", << <<"help">> >>)>>
    /\ out # <<>>
    /\ Head(out[1]) = "usage:"

Ascending(names) ==
    \A i, j \in DOMAIN names : i < j => LexRank(names[i]) < LexRank(names[j])

\* C13 as stated: the names that help enumerates are in lexical order and
\* are exactly the names of the command registry.
C13_HelpIsSortedRegistry ==
    HelpListed
        => /\ Ascending(Tail(out[1]))
           /\ SeqToSet(Tail(out[1])) = SeqToSet(registered_commands)

\* C13 as amended: the names that help enumerates are the names of the
\* command registry, each once and in lexical order, followed by the
\* built-in help, which the registry does not hold.
C13_HelpIsSortedRegistryThenHelp ==
    HelpListed
        => LET names == Tail(out[1])
               reg == SubSeq(names, 1, Len(names) - 1)
           IN  /\ names # <<>>
               /\ names[Len(names)] = "help"
               /\ "help" \notin SeqToSet(registered_commands)
               /\ Ascending(reg)
               /\ SeqToSet(reg) = SeqToSet(registered_commands)
               /\ Len(reg) = Len(registered_commands)

C13_Witness == HelpListed /\ pc = "Printing" /\ results = <<>>

\* C14: once built, the dispatcher stays the same object through every later
\* dispatch, and it holds one sub-parser for each registered command and
\* for help, none twice.
C14_DispatcherBuiltOnce ==
    [][/\ (parser_cache # NotBuilt) => parser_cache' = parser_cache
       /\ (parser_cache' # NotBuilt)
             => /\ parser_cache'.id = 1
                /\ SeqToSet(parser_cache'.subparsers)
                      = SeqToSet(registered_commands) \cup {"help"}
                /\ Len(parser_cache'.subparsers) = Len(registered_commands) + 1]_vars

C14_Witness ==
    /\ parser_cache # NotBuilt
    /\ pc = "Dispatching"
    /\ IsDotCommand(command)

\* C15: without a database path main creates a scratch directory and has
\* removed it whenever it is left, after the loop ended, after an exception
\* left the loop and after a startup fault; with a path it creates and
\* removes none.
C15_ScratchRemovedOnExit ==
    /\ (database = "path") => temp_dir = "none"
    /\ (database = "None") => (temp_dir = "none" /\ pc = "Start")
    /\ (database = "scratch")
          => temp_dir = IF pc \in {"Terminated", "Crashed", "Faulted"}
                        THEN "removed" ELSE "created"

C15_Witness == pc = "Faulted" /\ database = "scratch" /\ temp_dir = "removed"

\* C16: printing emits one line per row, in row order, the values of the row
\* as text joined with '|', and no header: a table with the columns
\* (id, int) and (total, double) is described by the two lines id|int and
\* total|double.
C16_OneLinePerRow ==
    /\ [](/\ (event = "done" /\ "get_table_definition" \in OpsOf(calls))
               => out = << <<"id", "|", "int">>, <<"total", "|", "double">> >>
          /\ (event = "done" /\ "get_table_names" \in OpsOf(calls))
               => out = IF "t1" \in catalog THEN << <<"t1">> >> ELSE <<>>
          /\ (event = "done" /\ rkind = "engine")
               => \A i \in DOMAIN out : out[i] = <<"v">>)
    /\ [][(pc = "Printing" /\ pc' = "Printing")
             => /\ Len(out') = Len(out) + 1
                /\ Len(results') = Len(results) - 1]_vars

C16_Witness ==
    /\ event = "done"
    /\ "get_table_definition" \in OpsOf(calls)
    /\ out = << <<"id", "|", "int">>, <<"total", "|", "double">> >>

\* the handler of a registered command, as the calls record it
HandlerOp(name) ==
    CASE name = "schemas" -> "dot_schemas"
      [] name = "tables" -> "dot_tables"
      [] name = "schema" -> "dot_schema"
      [] name = "exit" -> "dot_exit"
      [] OTHER -> "none"

\* C17: a successful dispatch of a registered command calls its handler with
\* the values of its parameters in declared order: the token at the
\* parameter's position when there is one, else the parameter's default.
C17_HandlerGetsBoundArguments ==
    (IsDotCommand(command) /\ Len(calls) >= 2)
        => LET name == Head(TokensOf(command))[1]
               rest == Tail(TokensOf(command))
               params == Parameters(name)
           IN  /\ calls[2].op = HandlerOp(name)
               /\ Len(calls[2].arg) = Len(params)
               /\ \A i \in DOMAIN params :
                     calls[2].arg[i] = IF i <= Len(rest) THEN rest[i]
                                       ELSE params[i].default

C17_Witness ==
    /\ event = "dispatched"
    /\ Len(calls) = 3
    /\ calls[2] = Call("dot_schema", << <<"t1">> >>)
    /\ TokensOf(command) = << <<"schema">>, <<"t1">> >>

\* C18: on a continuation line the marker is not looked at: a line that
\* begins with '.' is appended like any other, ends accumulation only when
\* it ends with ';', and the unit goes to execute_query as a statement.
C18_MarkerOnlyOnFirstLine ==
    /\ [][(Reading /\ linenum >= 1)
             => \A line \in Lines :
                   (startswith(lstrip(line), ".") /\ ReadLine(line))
                       => IF endswith(rstrip(line), ";")
                          THEN /\ pc' = "Dispatching"
                               /\ command' = join(Append(buffer, line))
                          ELSE /\ pc' = "Prompting"
                               /\ event' = "line"
                               /\ buffer' = Append(buffer, line)]_vars
    /\ []((nreads >= 2 /\ calls # <<>>) => calls = <<Call("execute_query", command)>>)

C18_Witness ==
    /\ command = <<"select", "\n", ".", "tables", ";">>
    /\ calls = <<Call("execute_query", command)>>
    /\ event = "dispatched"
====
